---- MODULE Spec2Model ----
(***************************************************************************)
(* Statement caching strategies of diesel                                  *)
(* (connection/statement_cache/strategy.rs): WithCacheStrategy,            *)
(* WithoutCacheStrategy and the test-only IntrospectCachingStrategy with   *)
(* its thread-local log of CallInfo records.                               *)
(*                                                                         *)
(* Each thread owns one connection at a time; the connection owns one      *)
(* strategy.  A get call is one atomic step: the strategies are            *)
(* synchronous and take &mut self.                                         *)
(*                                                                         *)
(* Spec:        one connection at a time on one thread.                    *)
(* SpecThreads: a wrapper on each of two threads, calls interleaved.       *)
(* SpecPair:    a wrapper and a strategy without one, given the same calls.*)
(***************************************************************************)
EXTENDS Integers, Sequences, FiniteSets, TLC

\* ------------------------------------------------------------------ bounds
\* Number of get calls that return success on one connection before it is
\* replaced.
MaxCalls == 3

\* The same number where two threads run, each with its connection.
MaxThreadCalls == 2

\* ------------------------------------------------------------- value sets
Threads == {"t1", "t2"}
MainThread == "t1"

\* StatementCacheKey: the SQL of the query together with the type metadata
\* of its bind parameters.  K1 and K2 have the same SQL and different
\* metadata; K3 has another SQL.
K1 == [sql |-> "s1", meta |-> "m1"]
K2 == [sql |-> "s1", meta |-> "m2"]
K3 == [sql |-> "s2", meta |-> "m1"]
Keys == {K1, K2, K3}

\* What the query source does when asked to render itself.
Sources == {"renders", "RenderError"}

\* Statement handles the caller's prepare_fn can hand back.
Handles == {"h1", "h2"}

\* What the caller's prepare_fn does when invoked: a handle, or an error.
Preps == Handles \cup {"PrepareError"}

NoKey == [sql |-> "none", meta |-> "none"]

\* ------------------------------------------------------------ result types
OkVal(v) == [ok |-> TRUE, val |-> v, err |-> "none"]
ErrVal(e) == [ok |-> FALSE, val |-> "none", err |-> e]

\* MaybeCached::Cached(&mut Statement): a reference to the slot of the store
\* that holds the statement.
Cached(slot, stmt) == [tag |-> "Cached", slot |-> slot, stmt |-> stmt, err |-> "none"]
\* MaybeCached::CannotCache(Statement): an owned statement.
CannotCache(stmt) == [tag |-> "CannotCache", slot |-> NoKey, stmt |-> stmt, err |-> "none"]
\* Err(e)
Failed(e) == [tag |-> "Err", slot |-> NoKey, stmt |-> "none", err |-> e]

IsOk(res) == res.tag \in {"Cached", "CannotCache"}

\* ------------------------------------------------------- pure operations
\* StatementCacheKey::sql(source, backend): the SQL text of the key, or the
\* error of the query source.
KeySql(key, source) ==
    IF source = "renders" THEN OkVal(key.sql) ELSE ErrVal(source)

\* The caller's prepare_fn(sql, is_cached): behaves as the call's input says.
PrepareFn(prep, sql, signal) ==
    IF prep \in Handles THEN OkVal(prep) ELSE ErrVal(prep)

\* One invocation of the caller's prepare_fn, as the caller sees it.
Invocation(sql, signal) == [sql |-> sql, signal |-> signal]

EmptyCache == [k \in {} |-> "none"]

\* CacheEntry with the lookup made by the SQL of the key alone.
CacheEntry_BySql(cache, key) ==
    IF \E k \in DOMAIN cache : k.sql = key.sql
    THEN [occupied |-> TRUE, slot |-> CHOOSE k \in DOMAIN cache : k.sql = key.sql]
    ELSE [occupied |-> FALSE, slot |-> key]

\* HashMap::entry(key): the occupied slot holding key, or a vacant one.
CacheEntry(cache, key) ==
    [occupied |-> key \in DOMAIN cache, slot |-> key]

\* EntryInsert that keeps no entry but the new one.
EntryInsert_DropsOthers(cache, slot, st) ==
    [k \in {slot} |-> st]

\* VacantEntry::insert(st)
EntryInsert(cache, slot, st) ==
    [k \in (DOMAIN cache) \cup {slot} |-> IF k = slot THEN st ELSE cache[k]]

\* The outcome of a get call: the store after it, the result handed to the
\* caller, the invocations of prepare_fn it made, in order, and the number
\* of times it rendered SQL.
Outcome(cache, res, prepared, renders) ==
    [cache |-> cache, res |-> res, prepared |-> prepared, renders |-> renders]

\* WithCacheGet that never looks the key up: it prepares on every call.
WithCacheGet_NoLookup(cache, key, source, prep) ==
    LET sql == KeySql(key, source) IN
    IF ~sql.ok
    THEN Outcome(cache, Failed(sql.err), <<>>, 1)
    ELSE LET st == PrepareFn(prep, sql.val, "Yes") IN
         IF ~st.ok
         THEN Outcome(cache, Failed(st.err), <<Invocation(sql.val, "Yes")>>, 1)
         ELSE Outcome(EntryInsert(cache, key, st.val), Cached(key, st.val),
                      <<Invocation(sql.val, "Yes")>>, 1)

\* WithCacheGet that fills the slot before it prepares, and leaves it filled
\* when prepare fails.
WithCacheGet_InsertFirst(cache, key, source, prep) ==
    LET e == CacheEntry(cache, key) IN
    IF e.occupied
    THEN Outcome(cache, Cached(e.slot, cache[e.slot]), <<>>, 0)
    ELSE LET sql == KeySql(key, source) IN
         IF ~sql.ok
         THEN Outcome(cache, Failed(sql.err), <<>>, 1)
         ELSE LET st == PrepareFn(prep, sql.val, "Yes") IN
              IF ~st.ok
              THEN Outcome(EntryInsert(cache, e.slot, "none"), Failed(st.err),
                           <<Invocation(sql.val, "Yes")>>, 1)
              ELSE Outcome(EntryInsert(cache, e.slot, st.val),
                           Cached(e.slot, st.val),
                           <<Invocation(sql.val, "Yes")>>, 1)

\* WithCacheGet that renders the SQL before it looks the key up.
WithCacheGet_RenderFirst(cache, key, source, prep) ==
    LET sql == KeySql(key, source)
        e == CacheEntry(cache, key) IN
    IF ~sql.ok
    THEN Outcome(cache, Failed(sql.err), <<>>, 1)
    ELSE IF e.occupied
         THEN Outcome(cache, Cached(e.slot, cache[e.slot]), <<>>, 1)
         ELSE LET st == PrepareFn(prep, sql.val, "Yes") IN
              IF ~st.ok
              THEN Outcome(cache, Failed(st.err), <<Invocation(sql.val, "Yes")>>, 1)
              ELSE Outcome(EntryInsert(cache, e.slot, st.val),
                           Cached(e.slot, st.val),
                           <<Invocation(sql.val, "Yes")>>, 1)

\* WithCacheGet that hands the prepared statement back without storing it.
WithCacheGet_NoInsert(cache, key, source, prep) ==
    LET e == CacheEntry(cache, key) IN
    IF e.occupied
    THEN Outcome(cache, Cached(e.slot, cache[e.slot]), <<>>, 0)
    ELSE LET sql == KeySql(key, source) IN
         IF ~sql.ok
         THEN Outcome(cache, Failed(sql.err), <<>>, 1)
         ELSE LET st == PrepareFn(prep, sql.val, "Yes") IN
              IF ~st.ok
              THEN Outcome(cache, Failed(st.err), <<Invocation(sql.val, "Yes")>>, 1)
              ELSE Outcome(cache, Cached(e.slot, st.val),
                           <<Invocation(sql.val, "Yes")>>, 1)

\* WithCacheStrategy::get
WithCacheGet(cache, key, source, prep) ==
    LET e == CacheEntry(cache, key) IN
    IF e.occupied
    THEN Outcome(cache, Cached(e.slot, cache[e.slot]), <<>>, 0)
    ELSE LET sql == KeySql(key, source) IN
         IF ~sql.ok
         THEN Outcome(cache, Failed(sql.err), <<>>, 1)
         ELSE LET st == PrepareFn(prep, sql.val, "Yes") IN
              IF ~st.ok
              THEN Outcome(cache, Failed(st.err), <<Invocation(sql.val, "Yes")>>, 1)
              ELSE Outcome(EntryInsert(cache, e.slot, st.val),
                           Cached(e.slot, st.val),
                           <<Invocation(sql.val, "Yes")>>, 1)

\* WithCacheStrategy::strategy
WithCacheStrategySize == "Unbounded"

\* WithoutCacheGet that keeps what it prepared and serves it again.
WithoutCacheGet_Caches(cache, key, source, prep) ==
    IF key \in DOMAIN cache
    THEN Outcome(cache, Cached(key, cache[key]), <<>>, 0)
    ELSE LET sql == KeySql(key, source) IN
         IF ~sql.ok
         THEN Outcome(cache, Failed(sql.err), <<>>, 1)
         ELSE LET st == PrepareFn(prep, sql.val, "No") IN
              IF ~st.ok
              THEN Outcome(cache, Failed(st.err), <<Invocation(sql.val, "No")>>, 1)
              ELSE Outcome(EntryInsert(cache, key, st.val), CannotCache(st.val),
                           <<Invocation(sql.val, "No")>>, 1)

\* WithoutCacheGet that tells prepare_fn the statement will be cached.
WithoutCacheGet_SignalsYes(cache, key, source, prep) ==
    LET sql == KeySql(key, source) IN
    IF ~sql.ok
    THEN Outcome(cache, Failed(sql.err), <<>>, 1)
    ELSE LET st == PrepareFn(prep, sql.val, "Yes") IN
         IF ~st.ok
         THEN Outcome(cache, Failed(st.err), <<Invocation(sql.val, "Yes")>>, 1)
         ELSE Outcome(cache, CannotCache(st.val), <<Invocation(sql.val, "Yes")>>, 1)

\* WithoutCacheStrategy::get
WithoutCacheGet(cache, key, source, prep) ==
    LET sql == KeySql(key, source) IN
    IF ~sql.ok
    THEN Outcome(cache, Failed(sql.err), <<>>, 1)
    ELSE LET st == PrepareFn(prep, sql.val, "No") IN
         IF ~st.ok
         THEN Outcome(cache, Failed(st.err), <<Invocation(sql.val, "No")>>, 1)
         ELSE Outcome(cache, CannotCache(st.val), <<Invocation(sql.val, "No")>>, 1)

\* WithoutCacheStrategy::strategy
WithoutCacheStrategySize == "Disabled"

\* Dynamic dispatch through Box<dyn StatementCacheStrategy>.
InnerGet(kind, cache, key, source, prep) ==
    IF kind = "With"
    THEN WithCacheGet(cache, key, source, prep)
    ELSE WithoutCacheGet(cache, key, source, prep)

InnerStrategy(kind) ==
    IF kind = "With" THEN WithCacheStrategySize ELSE WithoutCacheStrategySize

\* NotedOutcome with the two arms of the match exchanged.
NotedOutcome_Swapped(prepared) ==
    IF prepared = <<>>
    THEN "None"
    ELSE IF prepared[Len(prepared)].signal = "Yes" THEN "DontCache" ELSE "Cache"

\* The closure IntrospectCachingStrategy::get hands to the inner strategy:
\* the value of `outcome` after the inner call made the invocations given.
NotedOutcome(prepared) ==
    IF prepared = <<>>
    THEN "None"
    ELSE IF prepared[Len(prepared)].signal = "Yes" THEN "Cache" ELSE "DontCache"

\* UnwrapOutcome with another default.
UnwrapOutcome_Cache(noted) == IF noted = "None" THEN "Cache" ELSE noted

\* outcome.unwrap_or(CachingOutcome::UseCached)
UnwrapOutcome(noted) == IF noted = "None" THEN "UseCached" ELSE noted

CallInfo(sql, outcome) == [sql |-> sql, outcome |-> outcome]

\* IntrospectGet that calls the inner strategy a second time when the first
\* call fails.
IntrospectGet_Retry(kind, cache, calls, key, source, prep) ==
    LET sql == KeySql(key, source) IN
    IF ~sql.ok
    THEN [out |-> Outcome(cache, Failed(sql.err), <<>>, 1), calls |-> calls]
    ELSE LET first == InnerGet(kind, cache, key, source, prep)
             inner == IF IsOk(first.res)
                      THEN first
                      ELSE LET again == InnerGet(kind, first.cache, key, source, prep) IN
                           Outcome(again.cache, again.res, first.prepared \o again.prepared,
                                   first.renders + again.renders)
         IN
         IF ~IsOk(inner.res)
         THEN [out |-> Outcome(inner.cache, inner.res, inner.prepared, 1 + inner.renders),
               calls |-> calls]
         ELSE [out |-> Outcome(inner.cache, inner.res, inner.prepared, 1 + inner.renders),
               calls |-> Append(calls, CallInfo(sql.val, UnwrapOutcome(NotedOutcome(inner.prepared))))]

\* IntrospectGet that appends its record whether the inner call failed or not.
IntrospectGet_LogsFailures(kind, cache, calls, key, source, prep) ==
    LET sql == KeySql(key, source) IN
    IF ~sql.ok
    THEN [out |-> Outcome(cache, Failed(sql.err), <<>>, 1), calls |-> calls]
    ELSE LET inner == InnerGet(kind, cache, key, source, prep) IN
         [out |-> Outcome(inner.cache, inner.res, inner.prepared, 1 + inner.renders),
          calls |-> Append(calls, CallInfo(sql.val, UnwrapOutcome(NotedOutcome(inner.prepared))))]

\* IntrospectCachingStrategy::get: the outcome of the call and the log after it.
IntrospectGet(kind, cache, calls, key, source, prep) ==
    LET sql == KeySql(key, source) IN
    IF ~sql.ok
    THEN [out |-> Outcome(cache, Failed(sql.err), <<>>, 1), calls |-> calls]
    ELSE LET inner == InnerGet(kind, cache, key, source, prep) IN
         IF ~IsOk(inner.res)
         THEN [out |-> Outcome(inner.cache, inner.res, inner.prepared, 1 + inner.renders),
               calls |-> calls]
         ELSE [out |-> Outcome(inner.cache, inner.res, inner.prepared, 1 + inner.renders),
               calls |-> Append(calls, CallInfo(sql.val, UnwrapOutcome(NotedOutcome(inner.prepared))))]

\* IntrospectStrategySize that answers for itself instead of asking the
\* strategy inside.
IntrospectStrategySize_Fixed(kind) == "Unbounded"

\* IntrospectCachingStrategy::strategy: self.inner.strategy()
IntrospectStrategySize(kind) == InnerStrategy(kind)

\* ConsumeCalls that copies the log instead of taking it.
ConsumeCalls_Copy(calls) == [taken |-> calls, left |-> calls]

\* consume_statement_caching_calls: std::mem::take on the thread's log.
ConsumeCalls(calls) == [taken |-> calls, left |-> <<>>]

\* IntrospectedCalls::count
RECURSIVE CountOutcome(_, _)
CountOutcome(calls, outcome) ==
    IF calls = <<>>
    THEN 0
    ELSE (IF Head(calls).outcome = outcome THEN 1 ELSE 0) + CountOutcome(Tail(calls), outcome)

\* IntrospectedCalls::is_empty
IsEmptyCalls(calls) == Len(calls) = 0

CachingOutcomes == {"UseCached", "Cache", "DontCache"}

\* ------------------------------------------------------------------ state
VARIABLES
    conn,       \* conn[t]: the strategy of thread t's connection
    log,        \* log[t]: INTROSPECT_CACHING_STRATEGY of thread t
    okKeys,     \* okKeys[t]: keys of the get calls on conn[t] that returned Ok, in call order
    attempted,  \* attempted[t]: keys of the get calls on conn[t] that invoked prepare_fn
    drained,    \* drained[t]: records taken from log[t] since conn[t] was built
    okPrepares, \* okPrepares[t]: invocations of prepare_fn on conn[t] that returned Ok
    last,       \* the call that was made last
    twin        \* the same call as last, made on the strategy without the wrapper

vars == <<conn, log, okKeys, attempted, drained, okPrepares, last, twin>>

Kinds == {"With", "Without"}

\* A strategy just built: WithCacheStrategy::default() or
\* WithoutCacheStrategy::default(), possibly boxed inside an
\* IntrospectCachingStrategy.
NewStrategy(wrapped, kind) == [wrapped |-> wrapped, kind |-> kind, cache |-> EmptyCache]

LastCall(op, t, key, source, prep, res, prepared, renders, taken) ==
    [op |-> op, t |-> t, key |-> key, source |-> source, prep |-> prep, res |-> res,
     prepared |-> prepared, renders |-> renders, taken |-> taken]

LastGet(t, key, source, prep, out) ==
    LastCall("get", t, key, source, prep, out.res, out.prepared, out.renders, <<>>)

LastOther(op, t, value, taken) ==
    LastCall(op, t, NoKey, "none", "none",
             [tag |-> value, slot |-> NoKey, stmt |-> "none", err |-> "none"], <<>>, 0, taken)

Init ==
    /\ conn \in [Threads -> {NewStrategy(w, k) : w \in BOOLEAN, k \in Kinds}]
    /\ \A t \in Threads \ {MainThread} : conn[t] = NewStrategy(TRUE, "With")
    /\ log = [t \in Threads |-> <<>>]
    /\ okKeys = [t \in Threads |-> <<>>]
    /\ attempted = [t \in Threads |-> {}]
    /\ drained = [t \in Threads |-> 0]
    /\ okPrepares = [t \in Threads |-> 0]
    /\ last = LastOther("init", MainThread, "none", <<>>)
    /\ twin = LastOther("init", MainThread, "none", <<>>)

\* The number of the invocations given at which prepare_fn returned Ok.
OkInvocations(prep, prepared) ==
    Cardinality({i \in 1..Len(prepared) :
                   PrepareFn(prep, prepared[i].sql, prepared[i].signal).ok})

\* What a get call on thread t with the outcome given adds to the record
\* kept of the connection's calls.
Noted(t, key, prep, out) ==
    /\ okKeys' = [okKeys EXCEPT ![t] = IF IsOk(out.res) THEN Append(@, key) ELSE @]
    /\ attempted' = [attempted EXCEPT ![t] = IF out.prepared # <<>> THEN @ \cup {key} ELSE @]
    /\ okPrepares' = [okPrepares EXCEPT ![t] = @ + OkInvocations(prep, out.prepared)]

\* ---------------------------------------------------------------- actions
\* A get call made directly on a WithCacheStrategy.
GetWithCache(t, key, source, prep) ==
    /\ ~conn[t].wrapped /\ conn[t].kind = "With"
    /\ Len(okKeys[t]) < MaxCalls
    /\ LET out == WithCacheGet(conn[t].cache, key, source, prep) IN
       /\ conn' = [conn EXCEPT ![t].cache = out.cache]
       /\ Noted(t, key, prep, out)
       /\ last' = LastGet(t, key, source, prep, out)
    /\ UNCHANGED <<log, drained, twin>>

\* A get call made directly on a WithoutCacheStrategy.
GetWithoutCache(t, key, source, prep) ==
    /\ ~conn[t].wrapped /\ conn[t].kind = "Without"
    /\ Len(okKeys[t]) < MaxCalls
    /\ LET out == WithoutCacheGet(conn[t].cache, key, source, prep) IN
       /\ conn' = [conn EXCEPT ![t].cache = out.cache]
       /\ Noted(t, key, prep, out)
       /\ last' = LastGet(t, key, source, prep, out)
    /\ UNCHANGED <<log, drained, twin>>

\* A get call made on an IntrospectCachingStrategy.
GetIntrospect(t, key, source, prep) ==
    /\ conn[t].wrapped
    /\ Len(okKeys[t]) < MaxCalls
    /\ LET got == IntrospectGet(conn[t].kind, conn[t].cache, log[t], key, source, prep) IN
       /\ conn' = [conn EXCEPT ![t].cache = got.out.cache]
       /\ log' = [log EXCEPT ![t] = got.calls]
       /\ Noted(t, key, prep, got.out)
       /\ last' = LastGet(t, key, source, prep, got.out)
    /\ UNCHANGED <<drained, twin>>

\* strategy() on the connection's strategy.
StrategyCall(t) ==
    /\ last' = LastOther("strategy", t,
                         IF conn[t].wrapped
                         THEN IntrospectStrategySize(conn[t].kind)
                         ELSE InnerStrategy(conn[t].kind), <<>>)
    /\ UNCHANGED <<conn, log, okKeys, attempted, drained, okPrepares, twin>>

\* Consume on a log that all threads share.
Consume_AllThreads(t) ==
    /\ LET c == ConsumeCalls(log[t]) IN
       /\ log' = [u \in Threads |-> c.left]
       /\ drained' = [drained EXCEPT ![t] = @ + Len(c.taken)]
       /\ last' = LastOther("consume", t, "none", c.taken)
    /\ UNCHANGED <<conn, okKeys, attempted, okPrepares, twin>>

\* consume_statement_caching_calls() on thread t.
Consume(t) ==
    /\ LET c == ConsumeCalls(log[t]) IN
       /\ log' = [log EXCEPT ![t] = c.left]
       /\ drained' = [drained EXCEPT ![t] = @ + Len(c.taken)]
       /\ last' = LastOther("consume", t, "none", c.taken)
    /\ UNCHANGED <<conn, okKeys, attempted, okPrepares, twin>>

\* NewIntrospect without the call of consume_statement_caching_calls.
NewIntrospect_KeepsLog(t, kind) ==
    /\ last' = LastOther("new", t, "none", <<>>)
    /\ conn' = [conn EXCEPT ![t] = NewStrategy(TRUE, kind)]
    /\ okKeys' = [okKeys EXCEPT ![t] = <<>>]
    /\ attempted' = [attempted EXCEPT ![t] = {}]
    /\ drained' = [drained EXCEPT ![t] = 0]
    /\ okPrepares' = [okPrepares EXCEPT ![t] = 0]
    /\ UNCHANGED <<log, twin>>

\* IntrospectCachingStrategy::new(strategy) with a strategy just built, on
\* thread t; the connection it replaces is dropped, and so are the records
\* consume_statement_caching_calls returns.
NewIntrospect(t, kind) ==
    /\ LET c == ConsumeCalls(log[t]) IN
       /\ log' = [log EXCEPT ![t] = c.left]
       /\ last' = LastOther("new", t, "none", c.taken)
    /\ conn' = [conn EXCEPT ![t] = NewStrategy(TRUE, kind)]
    /\ okKeys' = [okKeys EXCEPT ![t] = <<>>]
    /\ attempted' = [attempted EXCEPT ![t] = {}]
    /\ drained' = [drained EXCEPT ![t] = 0]
    /\ okPrepares' = [okPrepares EXCEPT ![t] = 0]
    /\ UNCHANGED twin

ThreadNext(t) ==
    \/ \E key \in Keys, source \in Sources, prep \in Preps :
         GetWithCache(t, key, source, prep)
    \/ \E key \in Keys, source \in Sources, prep \in Preps :
         GetWithoutCache(t, key, source, prep)
    \/ \E key \in Keys, source \in Sources, prep \in Preps :
         GetIntrospect(t, key, source, prep)
    \/ StrategyCall(t)
    \/ Consume(t)
    \/ \E kind \in Kinds : NewIntrospect(t, kind)

\* One connection at a time, used on one thread.
Next == ThreadNext(MainThread)

Spec == Init /\ [][Next]_vars

\* Two threads, each with a wrapper of its own and its own thread-local log;
\* their calls interleave in any order.
InitThreads ==
    /\ conn \in [Threads -> {NewStrategy(TRUE, k) : k \in Kinds}]
    /\ log = [t \in Threads |-> <<>>]
    /\ okKeys = [t \in Threads |-> <<>>]
    /\ attempted = [t \in Threads |-> {}]
    /\ drained = [t \in Threads |-> 0]
    /\ okPrepares = [t \in Threads |-> 0]
    /\ last = LastOther("init", MainThread, "none", <<>>)
    /\ twin = LastOther("init", MainThread, "none", <<>>)

ThreadKeys == {K1, K3}
ThreadSources == {"renders"}
ThreadPreps == {"h1", "PrepareError"}

NextThreads ==
    \E t \in Threads :
        \/ \E key \in ThreadKeys, source \in ThreadSources, prep \in ThreadPreps :
             Len(okKeys[t]) < MaxThreadCalls /\ GetIntrospect(t, key, source, prep)
        \/ Consume(t)
        \/ \E kind \in Kinds : NewIntrospect(t, kind)

SpecThreads == InitThreads /\ [][NextThreads]_vars

\* A wrapper over a strategy on one thread and a strategy of the same kind
\* without a wrapper on the other, both just built.
Wrapper == "t1"
Unwrapped == "t2"

InitPair ==
    /\ \E k \in Kinds :
         conn = [t \in Threads |-> NewStrategy(t = Wrapper, k)]
    /\ log = [t \in Threads |-> <<>>]
    /\ okKeys = [t \in Threads |-> <<>>]
    /\ attempted = [t \in Threads |-> {}]
    /\ drained = [t \in Threads |-> 0]
    /\ okPrepares = [t \in Threads |-> 0]
    /\ last = LastOther("init", Wrapper, "none", <<>>)
    /\ twin = LastOther("init", Unwrapped, "none", <<>>)

\* One get call made on the wrapper and made again, with the same key,
\* source and prepare_fn, on the strategy without a wrapper.
PairGet(key, source, prep) ==
    /\ conn[Wrapper].wrapped /\ ~conn[Unwrapped].wrapped
    /\ Len(okKeys[Wrapper]) < MaxCalls /\ Len(okKeys[Unwrapped]) < MaxCalls
    /\ LET got == IntrospectGet(conn[Wrapper].kind, conn[Wrapper].cache, log[Wrapper],
                                key, source, prep)
           out == InnerGet(conn[Unwrapped].kind, conn[Unwrapped].cache, key, source, prep)
       IN
       /\ conn' = [conn EXCEPT ![Wrapper].cache = got.out.cache,
                               ![Unwrapped].cache = out.cache]
       /\ log' = [log EXCEPT ![Wrapper] = got.calls]
       /\ okKeys' = [okKeys EXCEPT
                       ![Wrapper] = IF IsOk(got.out.res) THEN Append(@, key) ELSE @,
                       ![Unwrapped] = IF IsOk(out.res) THEN Append(@, key) ELSE @]
       /\ attempted' = [attempted EXCEPT
                          ![Wrapper] = IF got.out.prepared # <<>> THEN @ \cup {key} ELSE @,
                          ![Unwrapped] = IF out.prepared # <<>> THEN @ \cup {key} ELSE @]
       /\ okPrepares' = [okPrepares EXCEPT
                           ![Wrapper] = @ + OkInvocations(prep, got.out.prepared),
                           ![Unwrapped] = @ + OkInvocations(prep, out.prepared)]
       /\ last' = LastGet(Wrapper, key, source, prep, got.out)
       /\ twin' = LastGet(Unwrapped, key, source, prep, out)
    /\ UNCHANGED drained

NextPair ==
    \E key \in Keys, source \in Sources, prep \in Preps : PairGet(key, source, prep)

SpecPair == InitPair /\ [][NextPair]_vars

TypeOK ==
    /\ \A t \in Threads :
         /\ conn[t].kind \in Kinds
         /\ conn[t].wrapped \in BOOLEAN
         /\ DOMAIN conn[t].cache \subseteq Keys
         /\ \A k \in DOMAIN conn[t].cache : conn[t].cache[k] \in Handles
         /\ \A i \in 1..Len(log[t]) : log[t][i].outcome \in CachingOutcomes
         /\ Len(okKeys[t]) <= MaxCalls
         /\ attempted[t] \subseteq Keys
         /\ drained[t] \in Nat
         /\ okPrepares[t] \in 0..MaxCalls

\* ------------------------------------------------------- claim vocabulary
Range(seq) == {seq[i] : i \in 1..Len(seq)}

\* Thread t's connection uses a WithCacheStrategy / WithoutCacheStrategy
\* directly, or an IntrospectCachingStrategy over one.
OnWithCache(t) == ~conn[t].wrapped /\ conn[t].kind = "With"
OnWithoutCache(t) == ~conn[t].wrapped /\ conn[t].kind = "Without"
OnIntrospect(t, kind) == conn[t].wrapped /\ conn[t].kind = kind

\* The step is a get call on thread t / the call made last was one.
GetStep(t) == last'.op = "get" /\ last'.t = t
GotLast(t) == last.op = "get" /\ last.t = t

Store(t) == conn[t].cache
StoreSize(t) == Cardinality(DOMAIN conn[t].cache)

\* ---------------------------------------------------------------------- C1
\* C1 as stated: over the get calls made on a WithCacheStrategy with one key,
\* prepare is invoked exactly once: a call with a key for which prepare was
\* invoked before does not invoke it again.
C1_PrepareInvokedOncePerKey ==
    [][\A t \in Threads :
         (GetStep(t) /\ OnWithCache(t) /\ last'.key \in attempted[t])
             => last'.prepared = <<>>]_vars

\* C1 as amended: over the get calls made on a WithCacheStrategy with one
\* key, the first call that returns success invokes prepare exactly once,
\* and every call after it returns Cached without invoking prepare; only
\* calls that failed come before it, so prepare succeeds exactly once.
C1_PrepareSucceedsOncePerKey ==
    [][\A t \in Threads :
         (GetStep(t) /\ OnWithCache(t))
             => IF last'.key \in Range(okKeys[t])
                THEN last'.res.tag = "Cached" /\ last'.prepared = <<>>
                ELSE /\ Len(last'.prepared) <= 1
                     /\ IsOk(last'.res) =>
                          /\ Len(last'.prepared) = 1
                          /\ last'.prep \in Handles
                          /\ last'.res.tag = "Cached"]_vars

\* A key was got with success twice and the second call prepared nothing.
C1_Witness ==
    /\ GotLast(MainThread) /\ OnWithCache(MainThread)
    /\ \E i, j \in 1..Len(okKeys[MainThread]) :
         i < j /\ okKeys[MainThread][i] = last.key /\ okKeys[MainThread][j] = last.key
    /\ last.key \in attempted[MainThread]
    /\ last.prepared = <<>>
    /\ last.res.tag = "Cached"

\* ---------------------------------------------------------------------- C2
\* C2: a get call on a WithCacheStrategy that fails leaves the store as it
\* was, with no entry for the key, and the next get call with that key is a
\* miss again: it renders the SQL and, when that succeeds, invokes prepare.
C2_FailedGetLeavesStore ==
    [][\A t \in Threads :
         /\ (GetStep(t) /\ OnWithCache(t) /\ ~IsOk(last'.res))
               => /\ Store(t)' = Store(t)
                  /\ last'.key \notin DOMAIN Store(t)'
                  /\ \A k \in DOMAIN Store(t)' : Store(t)'[k] \in Handles
         /\ (GotLast(t) /\ OnWithCache(t) /\ ~IsOk(last.res)
               /\ GetStep(t) /\ last'.key = last.key)
               => /\ last'.renders = 1
                  /\ last'.source = "renders" => Len(last'.prepared) = 1]_vars

\* A get call failed in prepare while the store held other entries.
C2_Witness ==
    /\ GotLast(MainThread) /\ OnWithCache(MainThread)
    /\ last.res = Failed("PrepareError")
    /\ Len(last.prepared) = 1
    /\ StoreSize(MainThread) >= 1

\* ---------------------------------------------------------------------- C3
\* C3 as stated: every get call on a WithoutCacheStrategy invokes prepare
\* exactly once and returns CannotCache.
C3_EveryCallPreparesOnce ==
    [][\A t \in Threads :
         (GetStep(t) /\ OnWithoutCache(t))
             => Len(last'.prepared) = 1 /\ last'.res.tag = "CannotCache"]_vars

\* C3 as amended: every get call on a WithoutCacheStrategy whose rendering
\* succeeds invokes prepare exactly once, whatever keys were used before (a
\* call whose rendering fails does not invoke it); a call that returns
\* success returns CannotCache with the statement prepare returned, never
\* Cached, and nothing is stored.
C3_RenderedCallPreparesOnce ==
    [][\A t \in Threads :
         (GetStep(t) /\ OnWithoutCache(t))
             => /\ Len(last'.prepared) = (IF last'.source = "renders" THEN 1 ELSE 0)
                /\ last'.res.tag # "Cached"
                /\ IsOk(last'.res) <=> (last'.source = "renders" /\ last'.prep \in Handles)
                /\ IsOk(last'.res) => last'.res = CannotCache(last'.prep)
                /\ Store(t)' = EmptyCache]_vars

\* A key was used with success before and the call prepared again.
C3_Witness ==
    /\ GotLast(MainThread) /\ OnWithoutCache(MainThread)
    /\ \E i, j \in 1..Len(okKeys[MainThread]) :
         i < j /\ okKeys[MainThread][i] = last.key /\ okKeys[MainThread][j] = last.key
    /\ Len(last.prepared) = 1
    /\ last.res.tag = "CannotCache"

\* ---------------------------------------------------------------------- C4
\* C4: a get call on a WithCacheStrategy with a key not in the store, whose
\* rendering and prepare succeed, stores the statement prepare returned
\* under that key, adds one entry and changes no other, and returns Cached
\* referring to the entry of that key.
C4_MissInserts ==
    [][\A t \in Threads :
         (GetStep(t) /\ OnWithCache(t) /\ last'.key \notin DOMAIN Store(t)
            /\ last'.source = "renders" /\ last'.prep \in Handles)
             => /\ DOMAIN Store(t)' = DOMAIN Store(t) \cup {last'.key}
                /\ Store(t)'[last'.key] = last'.prep
                /\ \A k \in DOMAIN Store(t) : Store(t)'[k] = Store(t)[k]
                /\ StoreSize(t)' = StoreSize(t) + 1
                /\ last'.res = Cached(last'.key, Store(t)'[last'.key])]_vars

\* A miss was served while the store held an entry with another statement.
C4_Witness ==
    /\ GotLast(MainThread) /\ OnWithCache(MainThread)
    /\ Len(last.prepared) = 1 /\ last.res.tag = "Cached"
    /\ StoreSize(MainThread) >= 2
    /\ \E k \in DOMAIN Store(MainThread) : Store(MainThread)[k] # last.res.stmt

\* ---------------------------------------------------------------------- C5
\* C5: a get call on a WithCacheStrategy with a key in the store returns
\* Cached referring to the statement stored under the key, invokes no
\* prepare, renders no SQL (so it succeeds with a source that cannot be
\* rendered) and leaves the store unchanged.
C5_HitReturnsStored ==
    [][\A t \in Threads :
         (GetStep(t) /\ OnWithCache(t) /\ last'.key \in DOMAIN Store(t))
             => /\ last'.res = Cached(last'.key, Store(t)[last'.key])
                /\ last'.prepared = <<>>
                /\ last'.renders = 0
                /\ Store(t)' = Store(t)]_vars

\* A hit was served for a source that cannot be rendered, with a prepare_fn
\* that would have returned another statement.
C5_Witness ==
    /\ GotLast(MainThread) /\ OnWithCache(MainThread)
    /\ last.source = "RenderError"
    /\ last.res.tag = "Cached"
    /\ last.prep \in Handles /\ last.prep # last.res.stmt

\* ---------------------------------------------------------------------- C6
\* C6: strategy() reports Unbounded for a WithCacheStrategy, Disabled for a
\* WithoutCacheStrategy and, for an IntrospectCachingStrategy, what the
\* strategy inside it reports, whatever calls were made before; it changes
\* neither the store nor the log.
C6_StrategyIsConstant ==
    [][\A t \in Threads :
         (last'.op = "strategy" /\ last'.t = t)
             => /\ conn[t].kind = "With" => last'.res.tag = "Unbounded"
                /\ conn[t].kind = "Without" => last'.res.tag = "Disabled"
                /\ conn' = conn
                /\ log' = log]_vars

\* strategy() was called on a wrapper over a WithoutCacheStrategy after calls
\* that succeeded and calls that failed.
C6_Witness ==
    /\ last.op = "strategy" /\ last.t = MainThread
    /\ OnIntrospect(MainThread, "Without")
    /\ last.res.tag = "Disabled"
    /\ Len(okKeys[MainThread]) >= 1
    /\ Len(log[MainThread]) >= 1
    /\ Cardinality(attempted[MainThread]) > Cardinality(Range(okKeys[MainThread]))

\* ---------------------------------------------------------------------- C7
\* The record the log must hold for the i-th successful get call on a
\* wrapper over a WithCacheStrategy whose successful calls had the keys given.
ExpectedRecord(keys, i) ==
    [sql |-> keys[i].sql,
     outcome |-> IF \E j \in 1..(i - 1) : keys[j] = keys[i] THEN "UseCached" ELSE "Cache"]

\* C7: with an IntrospectCachingStrategy over a WithCacheStrategy, the
\* records drained and those still in the log are one per successful get
\* call, in call order; a record has the SQL of its call's key, and the
\* outcome Cache for the first successful call with a key and UseCached for
\* the later ones.  Keys a, a, b give [Cache, UseCached, Cache].
C7_LogOfWithCache ==
    \A t \in Threads :
        OnIntrospect(t, "With")
            => /\ drained[t] + Len(log[t]) = Len(okKeys[t])
               /\ \A i \in 1..Len(log[t]) :
                    log[t][i] = ExpectedRecord(okKeys[t], drained[t] + i)
               /\ (/\ drained[t] = 0
                   /\ Len(okKeys[t]) = 3
                   /\ okKeys[t][1] = okKeys[t][2]
                   /\ okKeys[t][3] # okKeys[t][1])
                      => /\ Len(log[t]) = 3
                         /\ [i \in 1..3 |-> log[t][i].outcome]
                              = <<"Cache", "UseCached", "Cache">>

\* Keys K1, K1, K3 were got through a wrapper over a WithCacheStrategy.
C7_Witness ==
    /\ OnIntrospect(MainThread, "With")
    /\ okKeys[MainThread] = <<K1, K1, K3>>
    /\ log[MainThread] = <<CallInfo("s1", "Cache"), CallInfo("s1", "UseCached"),
                           CallInfo("s2", "Cache")>>

\* ---------------------------------------------------------------------- C8
\* C8: consume_statement_caching_calls returns the records of the thread's
\* log in the order they were appended, all those of the successful calls
\* made through the wrapper since the last drain or construction, and
\* leaves the log empty; a drain right after a drain returns nothing; the
\* counts of the three outcomes add up to the number of records returned.
C8_ConsumeTakesAll ==
    [][\A t \in Threads :
         (last'.op = "consume" /\ last'.t = t)
             => /\ last'.taken = log[t]
                /\ log'[t] = <<>>
                /\ IsEmptyCalls(log[t]) => IsEmptyCalls(last'.taken)
                /\ conn[t].wrapped => Len(last'.taken) = Len(okKeys[t]) - drained[t]
                /\ (last.op = "consume" /\ last.t = t) => last'.taken = <<>>
                /\ CountOutcome(last'.taken, "UseCached") + CountOutcome(last'.taken, "Cache")
                     + CountOutcome(last'.taken, "DontCache") = Len(last'.taken)]_vars

\* A drain returned two records with different outcomes.
C8_Witness ==
    /\ last.op = "consume" /\ last.t = MainThread
    /\ Len(last.taken) >= 2
    /\ last.taken[1].outcome # last.taken[2].outcome
    /\ log[MainThread] = <<>>

\* ---------------------------------------------------------------------- C9
\* C9: on a WithCacheStrategy, a get call with a key whose SQL is that of a
\* stored key and whose metadata differs is a miss: prepare is invoked and
\* an entry is added; a get call with a key equal to a stored one in SQL and
\* metadata invokes no prepare and adds no entry.
C9_MetadataIsPartOfKey ==
    [][\A t \in Threads :
         (GetStep(t) /\ OnWithCache(t) /\ last'.source = "renders" /\ last'.prep \in Handles)
             => IF \E k \in DOMAIN Store(t) : k.sql = last'.key.sql /\ k.meta = last'.key.meta
                THEN /\ last'.prepared = <<>>
                     /\ StoreSize(t)' = StoreSize(t)
                ELSE /\ Len(last'.prepared) = 1
                     /\ StoreSize(t)' = StoreSize(t) + 1
                     /\ last'.key \in DOMAIN Store(t)']_vars

\* The second of two keys with one SQL and different metadata was prepared
\* and stored next to the first.
C9_Witness ==
    /\ GotLast(MainThread) /\ OnWithCache(MainThread)
    /\ okKeys[MainThread] = <<K1, K2>>
    /\ last.key = K2 /\ Len(last.prepared) = 1
    /\ DOMAIN Store(MainThread) = {K1, K2}

\* --------------------------------------------------------------------- C10
\* C10: with every strategy, a get call invokes prepare at most once and not
\* at all when rendering fails, and a call whose rendering or prepare fails
\* returns the error of the operation that failed.
C10_ErrorsSurfaceUnchanged ==
    [][\A t \in Threads :
         GetStep(t)
             => /\ Len(last'.prepared) <= 1
                /\ last'.source # "renders" => last'.prepared = <<>>
                /\ (last'.renders >= 1 /\ last'.source # "renders")
                      => last'.res = Failed(last'.source)
                /\ (last'.prepared # <<>> /\ last'.prep \notin Handles)
                      => last'.res = Failed(last'.prep)
                /\ ~IsOk(last'.res)
                      => last'.res.err = (IF last'.source # "renders"
                                          THEN last'.source ELSE last'.prep)]_vars

\* A call through a wrapper failed in prepare, which was invoked once.
C10_Witness ==
    /\ GotLast(MainThread) /\ conn[MainThread].wrapped
    /\ last.res = Failed("PrepareError")
    /\ Len(last.prepared) = 1
    /\ last.renders >= 1

\* --------------------------------------------------------------------- C11
\* C11: a get call on an IntrospectCachingStrategy appends one record to the
\* log when it returns success and leaves the log as it was when it returns
\* an error, also when prepare_fn was invoked before the error; so the log
\* holds as many records as get calls returned success through the wrapper
\* since the last drain or construction.
C11_OneRecordPerSuccess ==
    [][\A t \in Threads :
         /\ (GetStep(t) /\ conn[t].wrapped)
               => IF IsOk(last'.res)
                  THEN /\ Len(log'[t]) = Len(log[t]) + 1
                       /\ SubSeq(log'[t], 1, Len(log[t])) = log[t]
                       /\ log'[t][Len(log'[t])].sql = last'.key.sql
                  ELSE log'[t] = log[t]
         /\ conn'[t].wrapped => Len(log'[t]) = Len(okKeys'[t]) - drained'[t]]_vars

\* A call through a wrapper failed in prepare, after the closure noted the
\* outcome, with records of earlier calls in the log.
C11_Witness ==
    /\ GotLast(MainThread) /\ conn[MainThread].wrapped
    /\ last.res = Failed("PrepareError")
    /\ last.prepared # <<>>
    /\ Len(log[MainThread]) >= 1
    /\ Len(log[MainThread]) = Len(okKeys[MainThread])

\* --------------------------------------------------------------------- C12
\* C12: IntrospectCachingStrategy::new empties the log of its thread,
\* whatever an earlier wrapper left in it, and a drain on the new wrapper
\* returns the records of the successful get calls made on it, no others.
C12_NewClearsLog ==
    [][\A t \in Threads :
         /\ (last'.op = "new" /\ last'.t = t)
               => /\ log'[t] = <<>>
                  /\ conn'[t].wrapped /\ conn'[t].cache = EmptyCache
         /\ (last'.op = "consume" /\ last'.t = t /\ conn[t].wrapped)
               => /\ Len(last'.taken) = Len(okKeys[t]) - drained[t]
                  /\ \A i \in 1..Len(last'.taken) :
                       last'.taken[i].sql = okKeys[t][drained[t] + i].sql]_vars

\* A wrapper was built while the log held records of an earlier wrapper.
C12_Witness ==
    /\ last.op = "new" /\ last.t = MainThread
    /\ Len(last.taken) >= 2
    /\ log[MainThread] = <<>>
    /\ okKeys[MainThread] = <<>>

\* --------------------------------------------------------------------- C13
\* C13: while a WithCacheStrategy lives, used directly or inside a wrapper,
\* every key of its store stays in the store with the statement it has, and
\* a get call that finds its key in the store and returns success returns
\* that statement, whatever prepare_fn would have returned.
C13_StoreOnlyGrows ==
    [][\A t \in Threads :
         (conn[t].kind = "With" /\ ~(last'.op = "new" /\ last'.t = t))
             => /\ \A k \in DOMAIN Store(t) :
                     k \in DOMAIN Store(t)' /\ Store(t)'[k] = Store(t)[k]
                /\ StoreSize(t)' >= StoreSize(t)
                /\ (GetStep(t) /\ last'.key \in DOMAIN Store(t) /\ IsOk(last'.res))
                      => last'.res = Cached(last'.key, Store(t)[last'.key])]_vars

\* A wrapper over a WithCacheStrategy with two entries served a hit while
\* prepare_fn would have returned another statement.
C13_Witness ==
    /\ GotLast(MainThread) /\ OnIntrospect(MainThread, "With")
    /\ last.res.tag = "Cached" /\ last.prepared = <<>>
    /\ last.prep \in Handles /\ last.prep # last.res.stmt
    /\ StoreSize(MainThread) >= 2

OutcomeOfSignal(prepared) ==
    IF prepared = <<>>
    THEN "UseCached"
    ELSE IF prepared[1].signal = "Yes" THEN "Cache" ELSE "DontCache"

\* C15: the record a successful get call on a wrapper appends has the outcome
\* Cache when prepare_fn was invoked with PrepareForCache::Yes, DontCache
\* when it was invoked with PrepareForCache::No and UseCached when it was
\* not invoked; the log of a wrapper over a WithoutCacheStrategy holds one
\* DontCache record for each successful call and nothing else.
C15_OutcomeFollowsSignal ==
    [][\A t \in Threads :
         /\ (GetStep(t) /\ conn[t].wrapped /\ IsOk(last'.res))
               => log'[t] = Append(log[t],
                                   CallInfo(last'.key.sql, OutcomeOfSignal(last'.prepared)))
         /\ OnIntrospect(t, "Without")'
               => /\ \A i \in 1..Len(log'[t]) : log'[t][i].outcome = "DontCache"
                  /\ Len(log'[t]) = Len(okKeys'[t]) - drained'[t]]_vars

\* A wrapper over a WithoutCacheStrategy was asked for one key three times.
C15_Witness ==
    /\ OnIntrospect(MainThread, "Without")
    /\ okKeys[MainThread] = <<K1, K1, K1>>
    /\ log[MainThread] = <<CallInfo("s1", "DontCache"), CallInfo("s1", "DontCache"),
                           CallInfo("s1", "DontCache")>>

\* --------------------------------------------------------------------- C16
\* C16: with a wrapper on each of two threads and their calls interleaved,
\* a call on one thread, be it a get, a drain or the construction of a
\* wrapper, leaves the log of the other thread as it is, and a drain returns
\* the records of the successful get calls made on its own thread since the
\* last drain or construction, in the order of those calls.
C16_LogIsPerThread ==
    [][\A t \in Threads :
         (last'.t = t /\ last'.op \in {"get", "consume", "new"})
             => /\ \A u \in Threads \ {t} : log'[u] = log[u]
                /\ last'.op = "consume"
                      => /\ last'.taken = log[t]
                         /\ Len(last'.taken) = Len(okKeys[t]) - drained[t]
                         /\ \A i \in 1..Len(last'.taken) :
                              last'.taken[i].sql = okKeys[t][drained[t] + i].sql]_vars

\* A drain on one thread returned that thread's records while the other
\* thread's log held records of its own.
C16_Witness ==
    /\ last.op = "consume" /\ last.t = "t1"
    /\ Len(last.taken) = 2
    /\ log["t1"] = <<>>
    /\ Len(log["t2"]) = 2
    /\ log["t2"] # last.taken

\* --------------------------------------------------------------------- C17
\* C17: the keys in the store of a WithCacheStrategy built empty are the
\* keys of the get calls that returned success, and the store has as many
\* entries as invocations of prepare_fn returned success.
C17_StoreMatchesSuccesses ==
    \A t \in Threads :
        conn[t].kind = "With"
            => /\ DOMAIN Store(t) = Range(okKeys[t])
               /\ StoreSize(t) = okPrepares[t]

\* Two keys were stored, one of them was hit again, and prepare_fn failed
\* for the third key.
C17_Witness ==
    /\ OnWithCache(MainThread)
    /\ StoreSize(MainThread) = 2
    /\ Len(okKeys[MainThread]) = 3
    /\ okPrepares[MainThread] = 2
    /\ attempted[MainThread] = Keys

\* --------------------------------------------------------------------- C18
\* C18: a get call made on an IntrospectCachingStrategy returns what the
\* same call returns on the strategy without the wrapper, after the same
\* calls on both: the same result, the same invocations of prepare_fn and
\* the same store.
C18_WrapperIsTransparent ==
    [][(last'.op = "get" /\ twin'.op = "get")
          => /\ last'.res = twin'.res
             /\ last'.prepared = twin'.prepared
             /\ conn'[Wrapper].cache = conn'[Unwrapped].cache]_vars
====
